---- MODULE Spec2Model ----
(***************************************************************************)
(* Model of the two pipelines of the repository:                           *)
(*   - src/python/natural/model.py : vocabulary, padding and generate()    *)
(*   - src/core/linear_classifier.py : Dataset, LinearClassifier and the   *)
(*     training driver                                                     *)
(* Strings are sequences of one-character strings.  Arrays are sequences   *)
(* of rows.  The values computed by the tensor library (gradients, error   *)
(* rates) are kept as symbolic terms naming their arguments.               *)
(***************************************************************************)
EXTENDS Integers, Sequences, FiniteSets, TLC

VARIABLES a, b, source, target, gen_status,
          pad_fn, pad_in, pad_out,
          dataset, call,
          training, validation, testing, W, bias, pc, run, batch_index,
          output

gen_vars == <<a, b, source, target, gen_status>>
pad_vars == <<pad_fn, pad_in, pad_out>>
data_vars == <<dataset, call>>
driver_vars == <<training, validation, testing, W, bias, pc, run,
                 batch_index, output>>
vars == <<gen_vars, pad_vars, data_vars, driver_vars>>

(***************************************************************************)
(* Bounds of the model.                                                    *)
(***************************************************************************)
MaxPadPrefix == 2
MaxPadExtra == 3
MaxRows == 5
MaxBatchSize == 3
MaxIndex == 3
MaxTrainRows == 3
MaxEvalRows == 2
MaxDriverBatchSize == 2
input_dimension == 2
num_categories == 2

(***************************************************************************)
(* model.py : constants                                                    *)
(***************************************************************************)
MIN_NUMBER == 1
MAX_NUMBER == 127

SOURCE_VOCAB == <<"1", "0", "*", " ">>
TARGET_VOCAB == <<"1", "0", " ">>

Range(s) == {s[i] : i \in 1..Len(s)}

DecDigit(d) == <<"0", "1", "2", "3", "4", "5", "6", "7", "8", "9">>[d + 1]

RECURSIVE BinFormat_dec(_)
BinFormat_dec(n) ==
  IF n < 10 THEN <<DecDigit(n)>>
  ELSE BinFormat_dec(n \div 10) \o <<DecDigit(n % 10)>>

\* '{0:b}'.format(n) for a natural number n
RECURSIVE BinFormat(_)
BinFormat(n) ==
  IF n < 2 THEN <<IF n = 1 THEN "1" ELSE "0">>
  ELSE BinFormat(n \div 2) \o <<IF n % 2 = 1 THEN "1" ELSE "0">>

SOURCE_LEN == 1 + 2 * Len(BinFormat(MAX_NUMBER))
TARGET_LEN == Len(BinFormat(MAX_NUMBER * MAX_NUMBER))

RECURSIVE source_pad_lt(_)
source_pad_lt(s) ==
  IF Len(s) < SOURCE_LEN THEN source_pad_lt(s \o <<" ">>) ELSE s

RECURSIVE source_pad(_)
source_pad(s) ==
  IF Len(s) <= SOURCE_LEN THEN source_pad(s \o <<" ">>) ELSE s

RECURSIVE target_pad(_)
target_pad(s) ==
  IF Len(s) <= TARGET_LEN THEN target_pad(s \o <<" ">>) ELSE s

\* '{0:b}*{0:b}'.format(x, y): both fields name positional argument 0
SourceFormat(x, y) == BinFormat(x) \o <<"*">> \o BinFormat(x)

TargetFormat_succ(z) == BinFormat(z + 1)

\* '{0:b}'.format(z)
TargetFormat(z) == BinFormat(z)

\* the four assert statements of generate(), in order; the first that fails
\* raises AssertionError, otherwise the pair is returned
GenerateOutcome(src, tgt) ==
  IF ~(\A i \in 1..Len(src) : src[i] \in Range(SOURCE_VOCAB))
    THEN "assert_source_vocab"
  ELSE IF ~(\A i \in 1..Len(tgt) : tgt[i] \in Range(TARGET_VOCAB))
    THEN "assert_target_vocab"
  ELSE IF Len(src) # SOURCE_LEN THEN "assert_source_len"
  ELSE IF Len(tgt) # TARGET_LEN THEN "assert_target_len"
  ELSE "returned"

(***************************************************************************)
(* linear_classifier.py : Dataset                                          *)
(***************************************************************************)
Min(x, y) == IF x < y THEN x ELSE y

\* s[lo:hi] of an array for 0 <= lo <= hi: the rows lo .. hi-1 that exist
Slice(s, lo, hi) ==
  LET first == Min(lo, Len(s))
      last == Min(hi, Len(s))
  IN [k \in 1..(last - first) |-> s[first + k]]

\* Dataset.__init__ ; "/" on two ints is floor division
Dataset(inputs, outputs, size) ==
  [input_set |-> inputs, output_set |-> outputs, batch_size |-> size,
   num_batches |-> Len(inputs) \div size]

input_batch_from_one(ds, index) ==
  Slice(ds.input_set, index * ds.batch_size + 1,
        (index + 1) * ds.batch_size + 1)

input_batch_checked(ds, index) ==
  IF index < ds.num_batches
    THEN Slice(ds.input_set, index * ds.batch_size,
               (index + 1) * ds.batch_size)
    ELSE <<>>

input_batch(ds, index) ==
  Slice(ds.input_set, index * ds.batch_size, (index + 1) * ds.batch_size)

output_batch(ds, index) ==
  Slice(ds.output_set, index * ds.batch_size, (index + 1) * ds.batch_size)

\* the arrays of one split: row k of the inputs is the image k, row k of the
\* outputs its label
InputArray(n) == [k \in 1..n |-> k - 1]
OutputArray(n) == [k \in 1..n |-> (k - 1) % num_categories]

NoCall == [fn |-> "none", index |-> -1, result |-> <<>>]

(***************************************************************************)
(* Values of the variables a specification does not use.                   *)
(***************************************************************************)
NoDataset == [input_set |-> <<>>, output_set |-> <<>>, batch_size |-> 0,
              num_batches |-> 0]

IdleGen == /\ a = 0 /\ b = 0 /\ source = <<>> /\ target = <<>>
           /\ gen_status = "idle"
IdlePad == pad_fn = "none" /\ pad_in = <<>> /\ pad_out = <<>>
IdleData == dataset = NoDataset /\ call = NoCall
IdleDriver == /\ training = NoDataset /\ validation = NoDataset
              /\ testing = NoDataset /\ W = <<>> /\ bias = <<>>
              /\ pc = "none" /\ run = -1 /\ batch_index = -1
              /\ output = <<>>

(***************************************************************************)
(* generate(): the operands are the two results of number()                *)
(***************************************************************************)
InitGenerate ==
  /\ a \in MIN_NUMBER..MAX_NUMBER
  /\ b \in MIN_NUMBER..MAX_NUMBER
  /\ source = <<>> /\ target = <<>> /\ gen_status = "idle"
  /\ IdlePad /\ IdleData /\ IdleDriver

generate ==
  /\ gen_status = "idle"
  /\ LET c == a * b
         src == source_pad(SourceFormat(a, b))
         tgt == target_pad(TargetFormat(c))
     IN /\ source' = src
        /\ target' = tgt
        /\ gen_status' = GenerateOutcome(src, tgt)
  /\ UNCHANGED <<a, b, pad_vars, data_vars, driver_vars>>

NextGenerate == generate

SpecGenerate == InitGenerate /\ [][NextGenerate]_vars

(***************************************************************************)
(* source_pad / target_pad applied to arbitrary strings                    *)
(***************************************************************************)
RECURSIVE Fill(_, _)
Fill(ch, n) == IF n = 0 THEN <<>> ELSE <<ch>> \o Fill(ch, n - 1)

PadChars == {"1", "0", "*", " "}

PadPrefixes ==
  UNION {[1..n -> PadChars] : n \in 0..MaxPadPrefix}

PadInputs ==
  {p \o Fill("1", n) : p \in PadPrefixes,
                        n \in 0..(SOURCE_LEN + MaxPadExtra)}

InitPad ==
  /\ pad_fn = "none"
  /\ pad_in \in PadInputs
  /\ pad_out = <<>>
  /\ IdleGen /\ IdleData /\ IdleDriver

CallSourcePad ==
  /\ pad_fn = "none"
  /\ pad_fn' = "source_pad"
  /\ pad_out' = source_pad(pad_in)
  /\ UNCHANGED <<pad_in, gen_vars, data_vars, driver_vars>>

CallTargetPad ==
  /\ pad_fn = "none"
  /\ pad_fn' = "target_pad"
  /\ pad_out' = target_pad(pad_in)
  /\ UNCHANGED <<pad_in, gen_vars, data_vars, driver_vars>>

NextPad == CallSourcePad \/ CallTargetPad

SpecPad == InitPad /\ [][NextPad]_vars

(***************************************************************************)
(* Dataset: batches of a constructed Dataset taken at arbitrary indices     *)
(***************************************************************************)
InitDataset ==
  /\ \E n \in 0..MaxRows, size \in 1..MaxBatchSize :
       dataset = Dataset(InputArray(n), OutputArray(n), size)
  /\ call = NoCall
  /\ IdleGen /\ IdlePad /\ IdleDriver

CallInputBatch ==
  /\ \E index \in 0..MaxIndex :
       call' = [fn |-> "input_batch", index |-> index,
                result |-> input_batch(dataset, index)]
  /\ UNCHANGED <<dataset, gen_vars, pad_vars, driver_vars>>

CallOutputBatch ==
  /\ \E index \in 0..MaxIndex :
       call' = [fn |-> "output_batch", index |-> index,
                result |-> output_batch(dataset, index)]
  /\ UNCHANGED <<dataset, gen_vars, pad_vars, driver_vars>>

NextDataset == CallInputBatch \/ CallOutputBatch

SpecDataset == InitDataset /\ [][NextDataset]_vars

(***************************************************************************)
(* linear_classifier.py : LinearClassifier and the training driver          *)
(***************************************************************************)
runs == 100

\* numpy.zeros((input_dimension, num_categories)) and numpy.zeros((n,))
init_W == [i \in 1..input_dimension |-> [j \in 1..num_categories |-> 0]]
init_b == [j \in 1..num_categories |-> 0]

\* A shared parameter is its initial value and the gradient-descent updates
\* applied to it so far, each update named by the batch it was taken on.
Shared(value) == [init |-> value, updates |-> <<>>]

Batch(ds, index) ==
  [index |-> index, x |-> input_batch(ds, index),
   y |-> output_batch(ds, index)]

\* value of the cost on a batch under the current parameters
negative_log_likelihood(w, bb, batch) ==
  [W |-> Len(w.updates), b |-> Len(bb.updates), batch |-> batch]

\* value of batch_error_rate on batch index of ds under the parameters
batch_error_rate(w, bb, ds, index) ==
  [W |-> Len(w.updates), b |-> Len(bb.updates), batch |-> Batch(ds, index)]

\* error_rate_function(ds)(): numpy.mean(map(f, range(n)))
error_rate(w, bb, ds) ==
  [mean |-> [i \in 1..ds.num_batches |->
               batch_error_rate(w, bb, ds, i - 1)]]

Init ==
  /\ \E size \in 1..MaxDriverBatchSize,
        ntrain \in 0..MaxTrainRows,
        nvalid \in 0..MaxEvalRows,
        ntest \in 0..MaxEvalRows :
       /\ training = Dataset(InputArray(ntrain), OutputArray(ntrain), size)
       /\ validation = Dataset(InputArray(nvalid), OutputArray(nvalid), size)
       /\ testing = Dataset(InputArray(ntest), OutputArray(ntest), size)
  /\ W = Shared(init_W)
  /\ bias = Shared(init_b)
  /\ pc = "for_run"
  /\ run = -1
  /\ batch_index = -1
  /\ output = <<>>
  /\ IdleGen /\ IdlePad /\ IdleData

\* for run in range(runs): print "training pass", run
\* (batch_index is the position of the inner range iterator, reset here)
NextRun ==
  /\ pc = "for_run"
  /\ run + 1 < runs
  /\ run' = run + 1
  /\ batch_index' = -1
  /\ output' = Append(output, [kind |-> "training pass", value |-> run + 1])
  /\ pc' = "for_batch"
  /\ UNCHANGED <<training, validation, testing, W, bias>>
  /\ UNCHANGED <<gen_vars, pad_vars, data_vars>>

TrainBatch_inclusive ==
  /\ pc = "for_batch"
  /\ batch_index + 1 <= training.num_batches
  /\ LET index == batch_index + 1
         batch == Batch(training, index)
         c == negative_log_likelihood(W, bias, batch)
     IN /\ batch_index' = index
        /\ W' = [W EXCEPT !.updates = Append(@, batch)]
        /\ bias' = [bias EXCEPT !.updates = Append(@, batch)]
        /\ output' = IF index % 20 = 0
                        THEN Append(output, [kind |-> "training on batch",
                                             index |-> index, value |-> c])
                        ELSE output
  /\ UNCHANGED <<training, validation, testing, pc, run>>
  /\ UNCHANGED <<gen_vars, pad_vars, data_vars>>

\* c = train(batch_index): the cost before the update, then both updates
TrainBatch ==
  /\ pc = "for_batch"
  /\ batch_index + 1 < training.num_batches
  /\ LET index == batch_index + 1
         batch == Batch(training, index)
         c == negative_log_likelihood(W, bias, batch)
     IN /\ batch_index' = index
        /\ W' = [W EXCEPT !.updates = Append(@, batch)]
        /\ bias' = [bias EXCEPT !.updates = Append(@, batch)]
        /\ output' = IF index % 20 = 0
                        THEN Append(output, [kind |-> "training on batch",
                                             index |-> index, value |-> c])
                        ELSE output
  /\ UNCHANGED <<training, validation, testing, pc, run>>
  /\ UNCHANGED <<gen_vars, pad_vars, data_vars>>

Validate_first ==
  /\ pc = "for_batch"
  /\ ~(batch_index + 1 < training.num_batches)
  /\ run % 10 = 0
  /\ output' = Append(output, [kind |-> "validation error rate",
                                value |-> error_rate(W, bias, validation)])
  /\ pc' = "for_run"
  /\ UNCHANGED <<training, validation, testing, W, bias, run, batch_index>>
  /\ UNCHANGED <<gen_vars, pad_vars, data_vars>>

Validate_updating ==
  /\ pc = "for_batch"
  /\ ~(batch_index + 1 < training.num_batches)
  /\ run % 10 = 9
  /\ output' = Append(output, [kind |-> "validation error rate",
                                value |-> error_rate(W, bias, validation)])
  /\ W' = [W EXCEPT !.updates = Append(@, Batch(validation, 0))]
  /\ bias' = [bias EXCEPT !.updates = Append(@, Batch(validation, 0))]
  /\ pc' = "for_run"
  /\ UNCHANGED <<training, validation, testing, run, batch_index>>
  /\ UNCHANGED <<gen_vars, pad_vars, data_vars>>

\* the batches of the pass are exhausted and run % 10 == 9
Validate ==
  /\ pc = "for_batch"
  /\ ~(batch_index + 1 < training.num_batches)
  /\ run % 10 = 9
  /\ output' = Append(output, [kind |-> "validation error rate",
                                value |-> error_rate(W, bias, validation)])
  /\ pc' = "for_run"
  /\ UNCHANGED <<training, validation, testing, W, bias, run, batch_index>>
  /\ UNCHANGED <<gen_vars, pad_vars, data_vars>>

\* the batches of the pass are exhausted and run % 10 != 9
EndRun ==
  /\ pc = "for_batch"
  /\ ~(batch_index + 1 < training.num_batches)
  /\ run % 10 # 9
  /\ pc' = "for_run"
  /\ UNCHANGED <<training, validation, testing, W, bias, run, batch_index,
                 output>>
  /\ UNCHANGED <<gen_vars, pad_vars, data_vars>>

\* after the last pass: print "testing error rate:", tester()
Test ==
  /\ pc = "for_run"
  /\ ~(run + 1 < runs)
  /\ output' = Append(output, [kind |-> "testing error rate",
                                value |-> error_rate(W, bias, testing)])
  /\ pc' = "done"
  /\ UNCHANGED <<training, validation, testing, W, bias, run, batch_index>>
  /\ UNCHANGED <<gen_vars, pad_vars, data_vars>>

Next == NextRun \/ TrainBatch \/ Validate \/ EndRun \/ Test

Spec == Init /\ [][Next]_vars

(***************************************************************************)
(* Helpers of the properties                                               *)
(***************************************************************************)
RECURSIVE StripRight(_)
StripRight(s) ==
  IF s # <<>> /\ s[Len(s)] = " "
    THEN StripRight(SubSeq(s, 1, Len(s) - 1))
    ELSE s

RECURSIVE BinValue(_)
BinValue(s) ==
  IF s = <<>> THEN 0
  ELSE 2 * BinValue(SubSeq(s, 1, Len(s) - 1))
         + (IF s[Len(s)] = "1" THEN 1 ELSE 0)

IsBinary(s) == s # <<>> /\ \A i \in 1..Len(s) : s[i] \in {"0", "1"}

\* s is t followed by spaces only
PaddedFrom(s, t) ==
  /\ Len(s) >= Len(t)
  /\ \A i \in 1..Len(s) : s[i] = (IF i <= Len(t) THEN t[i] ELSE " ")

\* rows lo .. hi-1 (counted from 0) of an array
Rows(s, lo, hi) == [k \in 1..(hi - lo) |-> s[lo + k]]

CountKind(kind, p) ==
  Cardinality({q \in 1..p : output[q].kind = kind})

(***************************************************************************)
(* Properties of Dataset (SpecDataset)                                     *)
(***************************************************************************)
\* C1: with 1 <= B <= N, num_batches is N div B; every batch index below
\* num_batches selects exactly the B rows [i*B, (i+1)*B) of inputs and of
\* outputs; batches are pairwise disjoint, together they are the rows
\* 0 .. B*num_batches - 1, and the trailing N mod B rows are in no batch.
C1_BatchPartition ==
  LET B == dataset.batch_size
      N == Len(dataset.input_set)
      nb == dataset.num_batches
      rowsOf(i) == Range(input_batch(dataset, i))
  IN (1 <= B /\ B <= N) =>
       /\ nb * B <= N /\ N < (nb + 1) * B
       /\ \A i \in 0..(nb - 1) :
            /\ input_batch(dataset, i)
                 = Rows(dataset.input_set, i * B, (i + 1) * B)
            /\ output_batch(dataset, i)
                 = Rows(dataset.output_set, i * B, (i + 1) * B)
            /\ Len(input_batch(dataset, i)) = B
            /\ Len(output_batch(dataset, i)) = B
            /\ rowsOf(i) = (i * B)..((i + 1) * B - 1)
       /\ \A i, j \in 0..(nb - 1) : i # j => rowsOf(i) \cap rowsOf(j) = {}
       /\ UNION {rowsOf(i) : i \in 0..(nb - 1)} = 0..(B * nb - 1)
       /\ \A r \in (B * nb)..(N - 1), i \in 0..(nb - 1) : r \notin rowsOf(i)
       /\ (call.fn = "input_batch" /\ call.index < nb) =>
            call.result = Rows(dataset.input_set, call.index * B,
                               (call.index + 1) * B)
       /\ (call.fn = "output_batch" /\ call.index < nb) =>
            call.result = Rows(dataset.output_set, call.index * B,
                               (call.index + 1) * B)

C1_Witness ==
  /\ Len(dataset.input_set) = 5 /\ dataset.batch_size = 2
  /\ dataset.num_batches = 2
  /\ call.fn = "input_batch" /\ call.index = 1 /\ call.result = <<2, 3>>

\* C8: a batch taken at an index >= num_batches is not rejected: the call
\* returns the existing rows of [i*B, (i+1)*B), that is the N mod B trailing
\* rows at index num_batches and no row beyond; the call leaves the Dataset
\* as it was.
C8_UncheckedIndex ==
  [][ /\ dataset' = dataset
      /\ LET B == dataset.batch_size
             N == Len(dataset.input_set)
             nb == dataset.num_batches
             arr == IF call'.fn = "input_batch" THEN dataset.input_set
                    ELSE dataset.output_set
         IN call'.index >= nb =>
              /\ Len(call'.result)
                   = (IF call'.index = nb THEN N % B ELSE 0)
              /\ call'.result
                   = Rows(arr, call'.index * B,
                          call'.index * B + Len(call'.result))
    ]_vars

C8_Witness ==
  /\ Len(dataset.input_set) = 5 /\ dataset.batch_size = 2
  /\ call.fn = "input_batch" /\ call.index = dataset.num_batches
  /\ call.result = <<4>>

(***************************************************************************)
(* Properties of generate() (SpecGenerate)                                 *)
(***************************************************************************)
\* C2: every call of generate() returns a pair whose source has exactly
\* SOURCE_LEN characters and whose target has exactly TARGET_LEN characters,
\* no length assertion failing.
C2_ExactLengths ==
  gen_status # "idle" =>
    /\ gen_status = "returned"
    /\ Len(source) = SOURCE_LEN
    /\ Len(target) = TARGET_LEN

\* C3: before padding, the source is binary(a), '*', binary(b) and the
\* target is binary(a*b), for the operands a and b of the same call.
C3_SourceShowsBothOperands ==
  gen_status # "idle" =>
    /\ StripRight(source) = BinFormat(a) \o <<"*">> \o BinFormat(b)
    /\ StripRight(target) = BinFormat(a * b)

\* C4: the target without its trailing spaces is a binary numeral whose
\* value is a*b and which has at most TARGET_LEN digits; for (127, 127) it
\* is 11111100000001, of exactly TARGET_LEN digits.
C4_TargetRoundTrip ==
  gen_status # "idle" =>
    /\ IsBinary(StripRight(target))
    /\ BinValue(StripRight(target)) = a * b
    /\ Len(StripRight(target)) <= TARGET_LEN
    /\ PaddedFrom(target, StripRight(target))
    /\ (a = 127 /\ b = 127) =>
         /\ StripRight(target) = <<"1", "1", "1", "1", "1", "1", "0", "0",
                                   "0", "0", "0", "0", "0", "1">>
         /\ Len(StripRight(target)) = TARGET_LEN
         /\ TARGET_LEN = 14

C4_Witness ==
  /\ gen_status # "idle" /\ a = 127 /\ b = 127
  /\ BinValue(StripRight(target)) = 16129

\* C5: every character of the padded source is one of 0 1 * space, every
\* character of the padded target one of 0 1 space, and neither alphabet
\* assertion of generate() fails.
C5_Alphabets ==
  gen_status # "idle" =>
    /\ \A i \in 1..Len(source) : source[i] \in {"0", "1", "*", " "}
    /\ \A i \in 1..Len(target) : target[i] \in {"0", "1", " "}
    /\ gen_status \notin {"assert_source_vocab", "assert_target_vocab"}

C5_Witness ==
  /\ gen_status # "idle" /\ a = 5 /\ b = 3
  /\ Range(source) = {"0", "1", "*", " "}
  /\ Range(target) = {"1", " "}

C6_BatchOrder ==
  LET nb == training.num_batches
      B == training.batch_size
      steps == Len(W.updates)
  IN /\ \A k \in 1..steps :
          /\ W.updates[k].index < nb
          /\ W.updates[k].index = (k - 1) % nb
          /\ W.updates[k].x
               = Rows(training.input_set, W.updates[k].index * B,
                      (W.updates[k].index + 1) * B)
          /\ W.updates[k].y
               = Rows(training.output_set, W.updates[k].index * B,
                      (W.updates[k].index + 1) * B)
     /\ bias.updates = W.updates
     /\ pc = "for_run" => steps = (run + 1) * nb
     /\ pc = "for_batch" => /\ steps = run * nb + batch_index + 1
                            /\ batch_index < nb
     /\ pc = "done" => steps = runs * nb

C6_Witness ==
  /\ pc = "done"
  /\ training.num_batches = 3
  /\ Len(W.updates) = 300
  /\ W.updates[299].index = 1

\* C7: with 100 epochs the validation error is printed exactly after the
\* epochs 10, 20, ..., 100, each time after all steps of that epoch and
\* before the next epoch, as the mean of the error rates of the validation
\* batches 0 .. num_batches-1 taken once each; the test error is printed
\* once, last, after all steps, and then nothing more happens.
C7_Reports ==
  LET nb == training.num_batches
      n == Len(output)
      IsMeanOver(value, ds, steps) ==
        /\ Len(value.mean) = ds.num_batches
        /\ \A i \in 1..ds.num_batches :
             /\ value.mean[i].batch.index = i - 1
             /\ value.mean[i].batch.x
                  = Rows(ds.input_set, (i - 1) * ds.batch_size,
                         i * ds.batch_size)
             /\ value.mean[i].batch.y
                  = Rows(ds.output_set, (i - 1) * ds.batch_size,
                         i * ds.batch_size)
             /\ value.mean[i].W = steps
             /\ value.mean[i].b = steps
  IN /\ runs = 100
     /\ \A p \in 1..n :
          output[p].kind = "validation error rate" =>
            /\ CountKind("training pass", p)
                 = 10 * CountKind("validation error rate", p)
            /\ IsMeanOver(output[p].value, validation,
                          CountKind("training pass", p) * nb)
            /\ p < n => output[p + 1].kind
                          \in {"training pass", "testing error rate"}
     /\ pc = "for_run" =>
          CountKind("validation error rate", n) = (run + 1) \div 10
     /\ pc = "for_batch" =>
          CountKind("validation error rate", n) = run \div 10
     /\ CountKind("testing error rate", n) = (IF pc = "done" THEN 1 ELSE 0)
     /\ pc = "done" =>
          /\ CountKind("validation error rate", n) = 10
          /\ CountKind("training pass", n) = 100
          /\ output[n].kind = "testing error rate"
          /\ output[n - 1].kind = "validation error rate"
          /\ IsMeanOver(output[n].value, testing, 100 * nb)
          /\ Len(W.updates) = 100 * nb
          /\ ~ENABLED Next

C7_Witness ==
  /\ pc = "done"
  /\ validation.num_batches = 2
  /\ training.num_batches = 3
  /\ CountKind("validation error rate", Len(output)) = 10
  /\ output[Len(output)].kind = "testing error rate"

\* C10: W and b are all zero when constructed; they change only in a
\* training step, never when the validation or test error rate is computed,
\* and no step of the driver changes the three Datasets.
C10_Frame ==
  /\ /\ W.updates = <<>> /\ bias.updates = <<>>
     /\ DOMAIN W.init = 1..input_dimension
     /\ \A i \in DOMAIN W.init :
          /\ DOMAIN W.init[i] = 1..num_categories
          /\ \A j \in DOMAIN W.init[i] : W.init[i][j] = 0
     /\ DOMAIN bias.init = 1..num_categories
     /\ \A j \in DOMAIN bias.init : bias.init[j] = 0
  /\ [][ /\ training' = training
         /\ validation' = validation
         /\ testing' = testing
         /\ W'.init = W.init /\ bias'.init = bias.init
         /\ (W' # W \/ bias' # bias) =>
              /\ pc = "for_batch" /\ pc' = "for_batch"
              /\ batch_index' = batch_index + 1
              /\ Len(W'.updates) = Len(W.updates) + 1
              /\ Len(bias'.updates) = Len(bias.updates) + 1
              /\ SubSeq(W'.updates, 1, Len(W.updates)) = W.updates
              /\ SubSeq(bias'.updates, 1, Len(bias.updates)) = bias.updates
         /\ (Len(output') > Len(output)
               /\ output'[Len(output')].kind
                    \in {"validation error rate", "testing error rate"}) =>
              (W' = W /\ bias' = bias)
       ]_vars

C10_Witness ==
  /\ pc = "for_batch"
  /\ Len(W.updates) > 30
  /\ CountKind("validation error rate", Len(output)) = 3
  /\ validation.num_batches = 2

====
